---------------------------- MODULE Spec2Model ----------------------------
(***************************************************************************)
(* A model of the live edge-scoring engine of deezstats: the v2 edge       *)
(* score (calculateEdgeScore and its helpers), the signal tiers, the      *)
(* alert decision, the pace score (calculateMateoScore), the batch        *)
(* ranking (calculateBatchEdges) and the alerting of the sync routes.      *)
(*                                                                         *)
(* Numbers.  The engine computes on JavaScript numbers (IEEE doubles).     *)
(* The model keeps the order of the operations, every branch and          *)
(* comparison, division by zero, the square root of a negative number,    *)
(* and the propagation of NaN and of the infinities; it gives up the last *)
(* digits.  A number is a record [k, v]: k = "num" is the finite          *)
(* value v / SCALE (decimal fixed point, each operation truncated toward  *)
(* zero), k = "nan", "pinf", "ninf" are NaN, +Infinity and -Infinity,     *)
(* k = "undef" is the JavaScript value undefined (an absent optional      *)
(* field) and k = "fn" is a function object (what a lookup in a plain     *)
(* object returns for a name inherited from Object.prototype).  Zero is   *)
(* unsigned.  TLC's integers are 32 bits wide; the inputs are bounded so  *)
(* that no finite value leaves that range (TLC stops with an overflow     *)
(* error if one does, it never wraps).                                     *)
(***************************************************************************)
EXTENDS Integers, Sequences, FiniteSets, TLC

VARIABLES
    input,          \* the EdgeInput of the invocation of calculateEdgeScore
    result,         \* the EdgeResult it returned
    pc,             \* "ready" before the call, "done" after it
    alertInput,     \* the arguments of the call of shouldAlert
    alerted,        \* what shouldAlert returned: "true" or "false"
    mateoResult,    \* the MateoResult of calculateMateoScore on the same input
    players,        \* the array handed to calculateBatchEdges
    batch,          \* the array calculateBatchEdges returned
    liveStats,      \* the edge scores the sync runs stored for one line, in order
    alerts          \* the active alert rows of that line, in insertion order

vars ==
    <<input, result, pc, alertInput, alerted, mateoResult, players, batch,
      liveStats, alerts>>

----------------------------------------------------------------------------
(* Fixed-point numbers with NaN and the infinities                         *)

SCALE == 10^4

Num(n) == [k |-> "num", v |-> n]
NaN == [k |-> "nan", v |-> 0]
PInf == [k |-> "pinf", v |-> 0]
NInf == [k |-> "ninf", v |-> 0]
Undefined == [k |-> "undef", v |-> 0]
FnObject == [k |-> "fn", v |-> 0]

\* the decimal literal n/d, e.g. F(3, 10) for 0.3
F(n, d) == Num((n * SCALE) \div d)
\* the integer literal n
I(n) == Num(n * SCALE)

IsNum(a) == a.k = "num"
IsNaN(a) == a.k = "nan"
IsInf(a) == a.k \in {"pinf", "ninf"}
IsDefined(a) == a.k # "undef"
\* ToNumber: undefined and a function object convert to NaN
ToNumber(a) == IF a.k \in {"undef", "fn"} THEN NaN ELSE a

Abs(n) == IF n < 0 THEN -n ELSE n
Sgn(n) == IF n < 0 THEN -1 ELSE IF n > 0 THEN 1 ELSE 0

\* sign of a number that is not NaN: -1, 0, 1
SignOf(a) == IF a.k = "pinf" THEN 1 ELSE IF a.k = "ninf" THEN -1 ELSE Sgn(a.v)
InfOfSign(s) == IF s > 0 THEN PInf ELSE NInf

\* a * b / SCALE on naturals without leaving 32 bits when the result fits
MulNat(a, b) ==
    LET ah == a \div SCALE
        al == a % SCALE
        bh == b \div SCALE
        bl == b % SCALE
    IN  ah * bh * SCALE + ah * bl + al * bh + (al * bl) \div SCALE

\* the first `digits` decimal digits of r / b as a natural, for 0 <= r < b
RECURSIVE FracDigits(_, _, _)
FracDigits(r, b, digits) ==
    IF digits = 0 THEN 0
    ELSE LET q == (r * 10) \div b
             r2 == (r * 10) % b
         IN  q * (10 ^ (digits - 1)) + FracDigits(r2, b, digits - 1)

\* a * SCALE / b on naturals, b > 0, by long division
DivNat(a, b) == (a \div b) * SCALE + FracDigits(a % b, b, 4)

FNeg(a0) ==
    LET a == ToNumber(a0)
    IN  CASE a.k = "num" -> Num(-a.v)
          [] a.k = "pinf" -> NInf
          [] a.k = "ninf" -> PInf
          [] OTHER -> NaN

FAdd(a0, b0) ==
    LET a == ToNumber(a0)
        b == ToNumber(b0)
    IN  CASE IsNaN(a) \/ IsNaN(b) -> NaN
          [] IsNum(a) /\ IsNum(b) -> Num(a.v + b.v)
          [] IsInf(a) /\ IsInf(b) -> IF a.k = b.k THEN a ELSE NaN
          [] IsInf(a) -> a
          [] OTHER -> b

FSub(a, b) == FAdd(a, FNeg(b))

FMul(a0, b0) ==
    LET a == ToNumber(a0)
        b == ToNumber(b0)
    IN  CASE IsNaN(a) \/ IsNaN(b) -> NaN
          [] IsNum(a) /\ IsNum(b) ->
                Num(Sgn(a.v) * Sgn(b.v) * MulNat(Abs(a.v), Abs(b.v)))
          [] OTHER ->
                IF SignOf(a) * SignOf(b) = 0 THEN NaN
                ELSE InfOfSign(SignOf(a) * SignOf(b))

FDiv(a0, b0) ==
    LET a == ToNumber(a0)
        b == ToNumber(b0)
    IN  CASE IsNaN(a) \/ IsNaN(b) -> NaN
          [] IsInf(a) /\ IsInf(b) -> NaN
          [] IsInf(a) -> InfOfSign(SignOf(a) * (IF SignOf(b) < 0 THEN -1 ELSE 1))
          [] IsInf(b) -> Num(0)
          [] b.v = 0 -> IF a.v = 0 THEN NaN ELSE InfOfSign(Sgn(a.v))
          [] OTHER -> Num(Sgn(a.v) * Sgn(b.v) * DivNat(Abs(a.v), Abs(b.v)))

\* the comparisons of JavaScript: false as soon as one side is NaN
FLt(a0, b0) ==
    LET a == ToNumber(a0)
        b == ToNumber(b0)
    IN  CASE IsNaN(a) \/ IsNaN(b) -> FALSE
          [] IsNum(a) /\ IsNum(b) -> a.v < b.v
          [] a.k = b.k -> FALSE
          [] OTHER -> a.k = "ninf" \/ b.k = "pinf"

FGt(a, b) == FLt(b, a)

FEq(a0, b0) ==
    LET a == ToNumber(a0)
        b == ToNumber(b0)
    IN  ~IsNaN(a) /\ ~IsNaN(b) /\ a = b

FLe(a, b) == FLt(a, b) \/ FEq(a, b)
FGe(a, b) == FLe(b, a)

\* Math.max and Math.min of two arguments
MathMax(a0, b0) ==
    LET a == ToNumber(a0)
        b == ToNumber(b0)
    IN  IF IsNaN(a) \/ IsNaN(b) THEN NaN ELSE IF FLt(a, b) THEN b ELSE a

MathMin(a0, b0) ==
    LET a == ToNumber(a0)
        b == ToNumber(b0)
    IN  IF IsNaN(a) \/ IsNaN(b) THEN NaN ELSE IF FLt(b, a) THEN b ELSE a

\* the largest natural r with r * r <= n, searched between lo and hi
RECURSIVE IsqrtBetween(_, _, _)
IsqrtBetween(n, lo, hi) ==
    IF lo >= hi THEN lo
    ELSE LET mid == (lo + hi + 1) \div 2
         IN  IF mid * mid <= n THEN IsqrtBetween(n, mid, hi)
             ELSE IsqrtBetween(n, lo, mid - 1)

\* Math.sqrt: NaN below zero
MathSqrt(a0) ==
    LET a == ToNumber(a0)
    IN  CASE IsNaN(a) \/ a.k = "ninf" -> NaN
          [] a.k = "pinf" -> PInf
          [] a.v < 0 -> NaN
          [] OTHER -> Num(IsqrtBetween(a.v * SCALE, 0, 46340))

\* Math.floor
MathFloor(a0) ==
    LET a == ToNumber(a0)
    IN  IF IsNum(a) THEN Num((a.v \div SCALE) * SCALE) ELSE a

\* e^x for 0 <= x < 1 (x a natural below SCALE): the Taylor series, summed
\* term by term until the terms vanish
RECURSIVE ExpSeries(_, _, _)
ExpSeries(x, term, i) ==
    IF term = 0 THEN 0
    ELSE term + ExpSeries(x, MulNat(term, x) \div i, i + 1)

\* e^x for a natural x (scaled), x < 10 * SCALE: e^(x/2) squared above 1/2
RECURSIVE ExpNat(_)
ExpNat(x) ==
    IF 2 * x <= SCALE THEN ExpSeries(x, SCALE, 1)
    ELSE LET h == ExpNat(x \div 2)
             sq == MulNat(h, h)
         IN  IF x % 2 = 0 THEN sq
             ELSE sq + sq \div SCALE   \* one more unit of 1/SCALE in the exponent

\* Math.exp.  e^-x is below half a unit of 1/SCALE from x = 10 on and is 0
\* there, as the double underflows to 0 below -745.
MathExp(a0) ==
    LET a == ToNumber(a0)
    IN  CASE IsNaN(a) -> NaN
          [] a.k = "pinf" -> PInf
          [] a.k = "ninf" -> Num(0)
          [] a.v >= 0 -> Num(ExpNat(a.v))
          [] a.v <= -10 * SCALE -> Num(0)
          [] OTHER -> Num(DivNat(SCALE, ExpNat(-a.v)))

----------------------------------------------------------------------------
(* The engine                                                              *)

\* an absent optional string or boolean field
NONE == "<absent>"

\* `statType ?` and `!statType`: undefined and the empty string are falsy
Truthy(s) == s # NONE /\ s # ""

StatTypes ==
    {"points", "rebounds", "assists", "three_pointers", "steals", "blocks",
     "passing_yards", "rushing_yards", "receiving_yards", "receptions",
     "touchdowns"}

\* names every plain object inherits from Object.prototype
ObjectPrototypeNames ==
    {"constructor", "toString", "valueOf", "hasOwnProperty", "__proto__"}

\* STAT_DAMPENING[statType]: the table is a plain object, so the lookup of a
\* name it does not own goes on to Object.prototype
STAT_DAMPENING(statType) ==
    CASE statType \in {"points", "passing_yards"} -> F(10, 10)
      [] statType \in {"rebounds", "receiving_yards"} -> F(13, 10)
      [] statType \in {"assists", "rushing_yards"} -> F(12, 10)
      [] statType \in {"three_pointers", "touchdowns"} -> F(20, 10)
      [] statType \in {"steals", "blocks"} -> F(25, 10)
      [] statType = "receptions" -> F(125, 100)
      [] statType \in ObjectPrototypeNames -> FnObject
      [] OTHER -> Undefined

POISSON_STAT_TYPES == {"steals", "blocks", "three_pointers", "touchdowns"}

\* the loop of poissonCDF from index i on: <<sum, term>> after the last pass
RECURSIVE poissonLoop(_, _, _, _, _)
poissonLoop(i, last, lambda, sum, term) ==
    IF ~FLe(I(i), last) THEN sum
    ELSE poissonLoop(i + 1, last, lambda,
                     FAdd(sum, term), FMul(term, FDiv(lambda, I(i + 1))))

poissonCDF(k, lambda) ==
    IF FLe(lambda, I(0)) THEN I(1)
    ELSE MathMin(I(1),
                 poissonLoop(0, MathFloor(k), lambda, I(0), MathExp(FNeg(lambda))))

\* the current rate trusted from a progress of 0.05 on (>= for >)
getPoissonConfidenceRateAtFive(currentValue, ln, progress, statType) ==
    IF ~Truthy(statType) \/ statType \notin POISSON_STAT_TYPES THEN F(10, 10)
    ELSE IF FLe(progress, I(0)) \/ FGe(progress, I(1)) THEN F(10, 10)
    ELSE
      LET remaining == MathMax(I(0), FSub(ln, currentValue))
          remainingProgress == FSub(I(1), progress)
          currentRate == IF FGe(progress, F(5, 100))
                         THEN FDiv(currentValue, progress) ELSE I(0)
          expectedRemaining == FMul(currentRate, remainingProgress)
          pOver == FSub(I(1), poissonCDF(FSub(remaining, I(1)), expectedRemaining))
      IN  IF FLe(expectedRemaining, I(0)) /\ FGt(remaining, I(0)) THEN F(3, 10)
          ELSE IF FLe(remaining, I(0)) THEN F(15, 10)
          ELSE MathMax(F(3, 10), MathMin(F(15, 10), FMul(pOver, F(20, 10))))

\* the 0.3 shortcut taken without looking at the remaining target
getPoissonConfidenceNoPath(currentValue, ln, progress, statType) ==
    IF ~Truthy(statType) \/ statType \notin POISSON_STAT_TYPES THEN F(10, 10)
    ELSE IF FLe(progress, I(0)) \/ FGe(progress, I(1)) THEN F(10, 10)
    ELSE
      LET remaining == MathMax(I(0), FSub(ln, currentValue))
          remainingProgress == FSub(I(1), progress)
          currentRate == IF FGt(progress, F(5, 100))
                         THEN FDiv(currentValue, progress) ELSE I(0)
          expectedRemaining == FMul(currentRate, remainingProgress)
          pOver == FSub(I(1), poissonCDF(FSub(remaining, I(1)), expectedRemaining))
      IN  IF FLe(expectedRemaining, I(0)) THEN F(3, 10)
          ELSE IF FLe(remaining, I(0)) THEN F(15, 10)
          ELSE MathMax(F(3, 10), MathMin(F(15, 10), FMul(pOver, F(20, 10))))

\* the scaled probability returned without the clamp to [0.3, 1.5]
getPoissonConfidenceUnclamped(currentValue, ln, progress, statType) ==
    IF ~Truthy(statType) \/ statType \notin POISSON_STAT_TYPES THEN F(10, 10)
    ELSE IF FLe(progress, I(0)) \/ FGe(progress, I(1)) THEN F(10, 10)
    ELSE
      LET remaining == MathMax(I(0), FSub(ln, currentValue))
          remainingProgress == FSub(I(1), progress)
          currentRate == IF FGt(progress, F(5, 100))
                         THEN FDiv(currentValue, progress) ELSE I(0)
          expectedRemaining == FMul(currentRate, remainingProgress)
          pOver == FSub(I(1), poissonCDF(FSub(remaining, I(1)), expectedRemaining))
      IN  IF FLe(expectedRemaining, I(0)) /\ FGt(remaining, I(0)) THEN F(3, 10)
          ELSE IF FLe(remaining, I(0)) THEN F(15, 10)
          ELSE FMul(pOver, F(20, 10))

getPoissonConfidence(currentValue, ln, progress, statType) ==
    IF ~Truthy(statType) \/ statType \notin POISSON_STAT_TYPES THEN F(10, 10)
    ELSE IF FLe(progress, I(0)) \/ FGe(progress, I(1)) THEN F(10, 10)
    ELSE
      LET remaining == MathMax(I(0), FSub(ln, currentValue))
          remainingProgress == FSub(I(1), progress)
          currentRate == IF FGt(progress, F(5, 100))
                         THEN FDiv(currentValue, progress) ELSE I(0)
          expectedRemaining == FMul(currentRate, remainingProgress)
          pOver == FSub(I(1), poissonCDF(FSub(remaining, I(1)), expectedRemaining))
      IN  IF FLe(expectedRemaining, I(0)) /\ FGt(remaining, I(0)) THEN F(3, 10)
          ELSE IF FLe(remaining, I(0)) THEN F(15, 10)
          ELSE MathMax(F(3, 10), MathMin(F(15, 10), FMul(pOver, F(20, 10))))

\* no minute left to expect in a second-half lead of more than 25
getBlowoutFactorBenched(scoreDifferential, period) ==
    IF ~IsDefined(scoreDifferential) \/ ~IsDefined(period) THEN F(10, 10)
    ELSE IF FGe(period, I(3)) /\ FGt(scoreDifferential, I(25)) THEN I(0)
    ELSE IF FGe(period, I(3)) /\ FGt(scoreDifferential, I(20)) THEN F(60, 100)
    ELSE IF FGe(period, I(4)) /\ FGt(scoreDifferential, I(15)) THEN F(50, 100)
    ELSE F(10, 10)

\* the fourth-quarter check made ahead of the second-half checks
getBlowoutFactorLateFirst(scoreDifferential, period) ==
    IF ~IsDefined(scoreDifferential) \/ ~IsDefined(period) THEN F(10, 10)
    ELSE IF FGe(period, I(4)) /\ FGt(scoreDifferential, I(15)) THEN F(50, 100)
    ELSE IF FGe(period, I(3)) /\ FGt(scoreDifferential, I(25)) THEN F(30, 100)
    ELSE IF FGe(period, I(3)) /\ FGt(scoreDifferential, I(20)) THEN F(60, 100)
    ELSE F(10, 10)

getBlowoutFactor(scoreDifferential, period) ==
    IF ~IsDefined(scoreDifferential) \/ ~IsDefined(period) THEN F(10, 10)
    ELSE IF FGe(period, I(3)) /\ FGt(scoreDifferential, I(25)) THEN F(30, 100)
    ELSE IF FGe(period, I(3)) /\ FGt(scoreDifferential, I(20)) THEN F(60, 100)
    ELSE IF FGe(period, I(4)) /\ FGt(scoreDifferential, I(15)) THEN F(50, 100)
    ELSE F(10, 10)

\* the foul trouble counted in every sport
getFoulTroubleReductionAnySport(personalFouls, period, sport) ==
    IF ~IsDefined(personalFouls) \/ ~IsDefined(period) THEN F(10, 10)
    ELSE IF FLt(period, I(4)) /\ FGe(personalFouls, I(5)) THEN F(50, 100)
    ELSE IF FLt(period, I(4)) /\ FGe(personalFouls, I(4)) THEN F(75, 100)
    ELSE F(10, 10)

getFoulTroubleReduction(personalFouls, period, sport) ==
    IF sport # "nba" \/ ~IsDefined(personalFouls) \/ ~IsDefined(period) THEN F(10, 10)
    ELSE IF FLt(period, I(4)) /\ FGe(personalFouls, I(5)) THEN F(50, 100)
    ELSE IF FLt(period, I(4)) /\ FGe(personalFouls, I(4)) THEN F(75, 100)
    ELSE F(10, 10)

\* absent minutes counted as one unit of evidence
getBayesianProjectionDefaultEvidence(currentValue, progress, minutesPlayed, seasonAverage) ==
    LET currentPace == IF FGt(progress, I(0))
                       THEN FDiv(currentValue, progress) ELSE I(0)
        evidenceWeight == FDiv(IF IsDefined(minutesPlayed) THEN minutesPlayed ELSE I(12),
                               I(12))
        priorWeight == F(20, 10)
    IN  IF ~IsDefined(seasonAverage) \/ FLe(seasonAverage, I(0)) THEN currentPace
        ELSE FDiv(FAdd(FMul(priorWeight, seasonAverage),
                       FMul(evidenceWeight, currentPace)),
                  FAdd(priorWeight, evidenceWeight))

\* the prior weighted 1 instead of 2
getBayesianProjectionUnitPrior(currentValue, progress, minutesPlayed, seasonAverage) ==
    LET currentPace == IF FGt(progress, I(0))
                       THEN FDiv(currentValue, progress) ELSE I(0)
        evidenceWeight == FDiv(IF IsDefined(minutesPlayed) THEN minutesPlayed ELSE I(0),
                               I(12))
        priorWeight == F(10, 10)
    IN  IF ~IsDefined(seasonAverage) \/ FLe(seasonAverage, I(0)) THEN currentPace
        ELSE FDiv(FAdd(FMul(priorWeight, seasonAverage),
                       FMul(evidenceWeight, currentPace)),
                  FAdd(priorWeight, evidenceWeight))

\* a season average of 0 taken as a prior
getBayesianProjectionZeroPrior(currentValue, progress, minutesPlayed, seasonAverage) ==
    LET currentPace == IF FGt(progress, I(0))
                       THEN FDiv(currentValue, progress) ELSE I(0)
        evidenceWeight == FDiv(IF IsDefined(minutesPlayed) THEN minutesPlayed ELSE I(0),
                               I(12))
        priorWeight == F(20, 10)
    IN  IF ~IsDefined(seasonAverage) \/ FLt(seasonAverage, I(0)) THEN currentPace
        ELSE FDiv(FAdd(FMul(priorWeight, seasonAverage),
                       FMul(evidenceWeight, currentPace)),
                  FAdd(priorWeight, evidenceWeight))

getBayesianProjection(currentValue, progress, minutesPlayed, seasonAverage) ==
    LET currentPace == IF FGt(progress, I(0))
                       THEN FDiv(currentValue, progress) ELSE I(0)
        evidenceWeight == FDiv(IF IsDefined(minutesPlayed) THEN minutesPlayed ELSE I(0),
                               I(12))
        priorWeight == F(20, 10)
    IN  IF ~IsDefined(seasonAverage) \/ FLe(seasonAverage, I(0)) THEN currentPace
        ELSE FDiv(FAdd(FMul(priorWeight, seasonAverage),
                       FMul(evidenceWeight, currentPace)),
                  FAdd(priorWeight, evidenceWeight))

\* the dampening fading in instead of out (sigmoid for 1 - sigmoid)
getSigmoidDampeningRising(base, progress) ==
    LET sigmoid == FDiv(I(1),
                        FAdd(I(1), MathExp(FMul(I(-10), FSub(progress, F(4, 10))))))
    IN  FAdd(I(1), FMul(FSub(base, I(1)), sigmoid))

getSigmoidDampening(base, progress) ==
    LET sigmoid == FDiv(I(1),
                        FAdd(I(1), MathExp(FMul(I(-10), FSub(progress, F(4, 10))))))
    IN  FAdd(I(1), FMul(FSub(base, I(1)), FSub(I(1), sigmoid)))

getExponentialGameTiming(progress) ==
    FAdd(F(4, 10), FMul(F(6, 10), MathExp(FMul(I(-3), progress))))

\* the usage multiplier applied in every sport
getUsageMultiplierAnySport(usagePercentage, sport) ==
    IF ~IsDefined(usagePercentage) THEN F(10, 10)
    ELSE FAdd(F(7, 10), FMul(FDiv(usagePercentage, I(100)), F(15, 10)))

getUsageMultiplier(usagePercentage, sport) ==
    IF sport # "nba" \/ ~IsDefined(usagePercentage) THEN F(10, 10)
    ELSE FAdd(F(7, 10), FMul(FDiv(usagePercentage, I(100)), F(15, 10)))

getGamePaceMultiplier(gamePace, sport) ==
    IF sport # "nba" \/ ~IsDefined(gamePace) THEN F(10, 10)
    ELSE FDiv(gamePace, I(100))

\* the tiers with the breakpoints on the wrong side (<= for <)
getSignalInclusive(score) ==
    IF FLe(score, F(15, 10)) THEN "none"
    ELSE IF FLe(score, F(20, 10)) THEN "monitor"
    ELSE IF FLe(score, F(30, 10)) THEN "good"
    ELSE "strong"

getSignal(score) ==
    IF FLt(score, F(15, 10)) THEN "none"
    ELSE IF FLt(score, F(20, 10)) THEN "monitor"
    ELSE IF FLt(score, F(30, 10)) THEN "good"
    ELSE "strong"

\* the line used without its floor
lineUnfloored(pregameLine) == pregameLine

\* const line = Math.max(pregameLine, 0.1)
line(pregameLine) == MathMax(pregameLine, F(1, 10))

\* the milder of the two reductions
minutesReductionMax(blowout, foulTrouble) == MathMax(blowout, foulTrouble)

minutesReduction(blowout, foulTrouble) == MathMin(blowout, foulTrouble)

\* (expectedMinutes ?? 0) * minutesReduction
effectiveExpectedMinutes(expectedMinutes, reduction) ==
    FMul(IF IsDefined(expectedMinutes) THEN expectedMinutes ELSE I(0), reduction)

\* `expectedMinutes && ...`: undefined, 0 and NaN are falsy
TruthyNum(a) == IsDefined(a) /\ ~IsNaN(a) /\ a # Num(0)

\* the minutes-based progress without its floor of 0.01
playerProgressUnfloored(minutesPlayed, effMinutes, expectedMinutes, gameElapsedPercent) ==
    IF IsDefined(minutesPlayed) /\ FGt(effMinutes, I(0))
    THEN FDiv(minutesPlayed, effMinutes)
    ELSE IF IsDefined(minutesPlayed) /\ TruthyNum(expectedMinutes)
            /\ FGt(expectedMinutes, I(0))
    THEN FDiv(minutesPlayed, expectedMinutes)
    ELSE FDiv(MathMax(gameElapsedPercent, I(1)), I(100))

\* the progress read off the game clock whatever minutes are given
playerProgressClockOnly(minutesPlayed, effMinutes, expectedMinutes, gameElapsedPercent) ==
    FDiv(MathMax(gameElapsedPercent, I(1)), I(100))

playerProgress(minutesPlayed, effMinutes, expectedMinutes, gameElapsedPercent) ==
    IF IsDefined(minutesPlayed) /\ FGt(effMinutes, I(0))
    THEN MathMax(FDiv(minutesPlayed, effMinutes), F(1, 100))
    ELSE IF IsDefined(minutesPlayed) /\ TruthyNum(expectedMinutes)
            /\ FGt(expectedMinutes, I(0))
    THEN MathMax(FDiv(minutesPlayed, expectedMinutes), F(1, 100))
    ELSE FDiv(MathMax(gameElapsedPercent, I(1)), I(100))

pace(currentValue, progress) == FDiv(currentValue, MathMax(progress, F(1, 100)))

paceRatio(projection, ln) == FDiv(projection, ln)

\* statType ? (STAT_DAMPENING[statType] ?? 1.0) : 1.0
baseDampening(statType) ==
    IF Truthy(statType)
    THEN (IF IsDefined(STAT_DAMPENING(statType))
          THEN STAT_DAMPENING(statType) ELSE F(10, 10))
    ELSE F(10, 10)

baseScarcity(gamesPlayed) ==
    FAdd(I(1), FDiv(I(1), MathSqrt(FAdd(gamesPlayed, I(1)))))

\* the rookie boost added instead of multiplied
dataScarcityRookieAdds(gamesPlayed, isRookie) ==
    IF isRookie = "true" THEN FAdd(baseScarcity(gamesPlayed), F(2, 10))
    ELSE baseScarcity(gamesPlayed)

\* isRookie defaults to false
dataScarcity(gamesPlayed, isRookie) ==
    IF isRookie = "true" THEN FMul(baseScarcity(gamesPlayed), F(12, 10))
    ELSE baseScarcity(gamesPlayed)

\* historicalStddev defaults to 0
variancePenalty(historicalStddev, ln) ==
    LET stddev == IF IsDefined(historicalStddev) THEN historicalStddev ELSE I(0)
    IN  IF FGt(stddev, I(0)) THEN FDiv(stddev, ln) ELSE I(0)

\* the product of the factors with the variance penalty left out
rawScoreNoPenalty(adjusted, poisson, usage, gamePaceMult, scarcity, timing, penalty) ==
    FMul(FMul(FMul(FMul(FMul(adjusted, poisson), usage), gamePaceMult),
              scarcity), timing)

rawScore(adjusted, poisson, usage, gamePaceMult, scarcity, timing, penalty) ==
    FSub(FMul(FMul(FMul(FMul(FMul(adjusted, poisson), usage), gamePaceMult),
                   scarcity), timing),
         penalty)

\* the clamp without its upper bound
edgeScoreUncapped(raw) == MathMax(I(0), raw)

edgeScore(raw) == MathMax(I(0), MathMin(raw, I(10)))

\* the progress calculateEdgeScore resolves for an input
progressOf(inp) ==
    playerProgress(inp.minutesPlayed,
        effectiveExpectedMinutes(inp.expectedMinutes,
            minutesReduction(getBlowoutFactor(inp.scoreDifferential, inp.period),
                getFoulTroubleReduction(inp.personalFouls, inp.period, inp.sport))),
        inp.expectedMinutes, inp.gameElapsedPercent)

calculateEdgeScore(inp) ==
    LET ln == line(inp.pregameLine)
        blowout == getBlowoutFactor(inp.scoreDifferential, inp.period)
        foulTrouble == getFoulTroubleReduction(inp.personalFouls, inp.period, inp.sport)
        reduction == minutesReduction(blowout, foulTrouble)
        effMinutes == effectiveExpectedMinutes(inp.expectedMinutes, reduction)
        progress == playerProgress(inp.minutesPlayed, effMinutes,
                                   inp.expectedMinutes, inp.gameElapsedPercent)
        projection == getBayesianProjection(inp.currentValue, progress,
                                            inp.minutesPlayed, inp.seasonAverage)
        ratio == paceRatio(projection, ln)
        dampening == getSigmoidDampening(baseDampening(inp.statType), progress)
        adjusted == FDiv(ratio, dampening)
        poisson == getPoissonConfidence(inp.currentValue, ln, progress, inp.statType)
        usage == getUsageMultiplier(inp.usagePercentage, inp.sport)
        gamePaceMult == getGamePaceMultiplier(inp.gamePace, inp.sport)
        scarcity == dataScarcity(inp.gamesPlayed, inp.isRookie)
        timing == getExponentialGameTiming(progress)
        penalty == variancePenalty(inp.historicalStddev, ln)
        score == edgeScore(rawScore(adjusted, poisson, usage, gamePaceMult,
                                    scarcity, timing, penalty))
    IN  [edgeScore |-> score,
         pace |-> pace(inp.currentValue, progress),
         projectedFinal |-> projection,
         signal |-> getSignal(score),
         components |->
           [paceRatio |-> ratio,
            adjustedPaceRatio |-> adjusted,
            statDampening |-> dampening,
            dataScarcity |-> scarcity,
            gameTiming |-> timing,
            variancePenalty |-> penalty,
            bayesianProjection |-> projection,
            blowoutFactor |-> blowout,
            usageMultiplier |-> usage,
            gamePaceMultiplier |-> gamePaceMult,
            poissonConfidence |-> poisson,
            foulTroubleReduction |-> foulTrouble,
            effectiveExpectedMinutes |-> effMinutes]]

\* shouldAlert of the v1 module (lib/algorithm/edge.ts), the same text
shouldAlertV1(score, previousScore) ==
    IF FGe(score, F(20, 10))
    THEN IF IsDefined(previousScore)
         THEN LET crossedToGood ==
                      FLt(previousScore, F(20, 10)) /\ FGe(score, F(20, 10))
                  crossedToStrong ==
                      FLt(previousScore, F(30, 10)) /\ FGe(score, F(30, 10))
              IN  crossedToGood \/ crossedToStrong
         ELSE TRUE
    ELSE FALSE

\* an alert on every change of tier between good and strong, drops included
shouldAlertOnTierChange(score, previousScore) ==
    IF FGe(score, F(20, 10))
    THEN IF IsDefined(previousScore)
         THEN \/ FLt(previousScore, F(20, 10))
              \/ FLt(previousScore, F(30, 10)) # FLt(score, F(30, 10))
         ELSE TRUE
    ELSE FALSE

\* the alert decision without the crossing into the strong tier
shouldAlertGoodOnly(score, previousScore) ==
    FGe(score, F(20, 10))
    /\ (IsDefined(previousScore) => FLt(previousScore, F(20, 10)))

shouldAlert(score, previousScore) ==
    IF FGe(score, F(20, 10))
    THEN IF IsDefined(previousScore)
         THEN LET crossedToGood ==
                      FLt(previousScore, F(20, 10)) /\ FGe(score, F(20, 10))
                  crossedToStrong ==
                      FLt(previousScore, F(30, 10)) /\ FGe(score, F(30, 10))
              IN  crossedToGood \/ crossedToStrong
         ELSE TRUE
    ELSE FALSE

----------------------------------------------------------------------------
(* The pace score (lib/algorithm/mateo.ts)                                 *)

\* the tiers with the upper breakpoints excluded (< for <=)
getMateoSignalExclusive(pacePercent) ==
    IF FLt(pacePercent, F(9, 10)) THEN "behind"
    ELSE IF FLt(pacePercent, F(11, 10)) THEN "on_target"
    ELSE IF FLt(pacePercent, F(15, 10)) THEN "ahead"
    ELSE "way_ahead"

getMateoSignal(pacePercent) ==
    IF FLt(pacePercent, F(9, 10)) THEN "behind"
    ELSE IF FLe(pacePercent, F(11, 10)) THEN "on_target"
    ELSE IF FLe(pacePercent, F(15, 10)) THEN "ahead"
    ELSE "way_ahead"

\* the progress calculateMateoScore resolves: the player's minutes over the
\* expected minutes as given, else the game clock
mateoProgress(minutesPlayed, expectedMinutes, gameElapsedPercent) ==
    IF IsDefined(minutesPlayed) /\ TruthyNum(expectedMinutes)
       /\ FGt(expectedMinutes, I(0))
    THEN MathMax(FDiv(minutesPlayed, expectedMinutes), F(1, 100))
    ELSE MathMax(FDiv(gameElapsedPercent, I(100)), F(1, 100))

\* the MateoInput is the first five fields of the EdgeInput
calculateMateoScore(inp) ==
    LET ln == MathMax(inp.pregameLine, F(1, 10))
        progress == mateoProgress(inp.minutesPlayed, inp.expectedMinutes,
                                  inp.gameElapsedPercent)
        targetPercent == FDiv(inp.currentValue, ln)
        pacePercent == FDiv(targetPercent, progress)
    IN  [pacePercent |-> pacePercent,
         targetPercent |-> targetPercent,
         signal |-> getMateoSignal(pacePercent)]

----------------------------------------------------------------------------
(* calculateBatchEdges: map, then Array.prototype.sort                     *)

\* players.map((player) => ({...player, result: calculateEdgeScore(player.input)}))
mapPlayers(ps) ==
    [i \in 1 .. Len(ps) |->
        [playerId |-> ps[i].playerId, playerName |-> ps[i].playerName,
         statType |-> ps[i].statType, input |-> ps[i].input,
         result |-> calculateEdgeScore(ps[i].input)]]

\* (a, b) => b.result.edgeScore - a.result.edgeScore
compareFn(a, b) == FSub(b.result.edgeScore, a.result.edgeScore)

\* SortCompare of ECMA-262: the sign of the comparator's number, NaN read as +0
SortCompare(a, b) ==
    LET v == compareFn(a, b) IN IF IsNaN(v) THEN 0 ELSE SignOf(v)

\* a consistent comparator never returns NaN (on these numbers the sign of
\* a difference that is not NaN is a total preorder)
ConsistentComparator(s) ==
    \A i, j \in 1 .. Len(s) : ~IsNaN(compareFn(s[i], s[j]))

\* x put behind every element that does not sort after it: one step of a
\* stable sort
RECURSIVE insertStable(_, _)
insertStable(sorted, x) ==
    IF sorted = << >> THEN <<x>>
    ELSE LET last == sorted[Len(sorted)]
         IN  IF SortCompare(last, x) <= 0 THEN Append(sorted, x)
             ELSE Append(insertStable(SubSeq(sorted, 1, Len(sorted) - 1), x),
                         last)

RECURSIVE stableSort(_)
stableSort(s) ==
    IF s = << >> THEN << >>
    ELSE insertStable(stableSort(SubSeq(s, 1, Len(s) - 1)), s[Len(s)])

\* the rearrangements of an array
Rearrangements(s) ==
    {[i \in 1 .. Len(s) |-> s[f[i]]] :
        f \in {g \in [1 .. Len(s) -> 1 .. Len(s)] :
                   \A i, j \in 1 .. Len(s) : g[i] = g[j] => i = j}}

\* what Array.prototype.sort may leave: the stable sort under a consistent
\* comparator (ES2019), an implementation-defined order otherwise
sortOutcomes(s) ==
    IF ConsistentComparator(s) THEN {stableSort(s)} ELSE Rearrangements(s)

\* the arrays calculateBatchEdges may return
calculateBatchEdges(ps) == sortOutcomes(mapPlayers(ps))

----------------------------------------------------------------------------
(* Inputs                                                                  *)

\* largest gamesPlayed tried (the smallest is -2)
MaxGames == 6
\* largest stat count tried for the rare-event stat types
MaxCount == 4
\* largest score, in tenths, handed to shouldAlert
MaxScoreTenths == 40

\* every optional field absent
BaseInput ==
    [currentValue |-> I(12), gameElapsedPercent |-> I(50),
     pregameLine |-> F(105, 10), gamesPlayed |-> I(3),
     historicalStddev |-> Undefined, isRookie |-> NONE,
     minutesPlayed |-> Undefined, expectedMinutes |-> Undefined,
     statType |-> NONE, scoreDifferential |-> Undefined, period |-> Undefined,
     personalFouls |-> Undefined, seasonAverage |-> Undefined,
     usagePercentage |-> Undefined, gamePace |-> Undefined, sport |-> NONE]

Ints(S) == {I(n) : n \in S}
Opt(S) == S \cup {Undefined}

\* the required fields, in and out of their documented domains, and the
\* fields of the scarcity and of the variance penalty
CoreInputs ==
    {[BaseInput EXCEPT !.currentValue = cv, !.pregameLine = pl,
                       !.gameElapsedPercent = ge, !.gamesPlayed = gp,
                       !.isRookie = rk, !.historicalStddev = sd] :
        cv \in Ints({-3, 0, 4, 38}),
        pl \in {I(-2), I(0), F(5, 10), F(105, 10), F(455, 10)},
        ge \in Ints({0, 33, 100}),
        gp \in Ints(-2 .. MaxGames),
        rk \in {NONE, "false", "true"},
        sd \in Opt({I(0), F(35, 10)})}

\* the game context that reduces the expected minutes
ContextInputs ==
    {[BaseInput EXCEPT !.minutesPlayed = mp, !.expectedMinutes = em,
                       !.scoreDifferential = df, !.period = pd,
                       !.personalFouls = pf, !.sport = sp] :
        mp \in Opt(Ints({0, 12, 40})),
        em \in Opt(Ints({0, 30, 60})),
        df \in Opt(Ints({10, 15, 16, 20, 22, 25, 30})),
        pd \in Opt(Ints({2, 3, 4})),
        pf \in Opt(Ints({3, 4, 5, 6})),
        sp \in {NONE, "nba", "nfl"}}

\* the stat types, with counts and lines of rare events
StatInputs ==
    {[BaseInput EXCEPT !.statType = st, !.currentValue = cv, !.pregameLine = pl,
                       !.gameElapsedPercent = ge,
                       !.minutesPlayed = m[1], !.expectedMinutes = m[2]] :
        st \in POISSON_STAT_TYPES \cup
               {NONE, "", "points", "receptions", "fantasy_points", "constructor"},
        cv \in Ints(0 .. MaxCount),
        pl \in {I(0), F(5, 10), F(15, 10), F(25, 10), I(3), F(45, 10)},
        ge \in Ints({0, 3, 5, 6, 25, 50, 90, 100}),
        m \in {<<Undefined, Undefined>>, <<I(40), I(30)>>}}

\* the season average and the basketball multipliers
PriorInputs ==
    {[BaseInput EXCEPT !.seasonAverage = sa, !.minutesPlayed = mp,
                       !.expectedMinutes = I(36), !.usagePercentage = us,
                       !.gamePace = gpace, !.sport = sp, !.currentValue = cv,
                       !.historicalStddev = sd] :
        sa \in Opt({I(-1), I(0), I(8), I(20)}),
        mp \in Opt(Ints({0, 24})),
        us \in Opt(Ints({0, 25, 100})),
        gpace \in Opt(Ints({0, 95, 110})),
        sp \in {NONE, "nba", "nfl"},
        cv \in Ints({0, 6, 15}),
        sd \in Opt({I(2)})}

\* the rookie receiver of the football scenario, and its neighbours
ScenarioInputs ==
    {[BaseInput EXCEPT !.currentValue = I(38), !.pregameLine = F(455, 10),
                       !.gameElapsedPercent = I(33), !.gamesPlayed = I(3),
                       !.isRookie = rk, !.minutesPlayed = mp,
                       !.expectedMinutes = em, !.statType = st, !.sport = sp] :
        rk \in {NONE, "false", "true"},
        mp \in Opt(Ints({20})),
        em \in Opt(Ints({60})),
        st \in {NONE, "receiving_yards"},
        sp \in {NONE, "nba", "nfl"}}

\* every stat type of the dampening table along the game
DampeningInputs ==
    {[BaseInput EXCEPT !.statType = st, !.currentValue = cv,
                       !.gameElapsedPercent = ge,
                       !.minutesPlayed = m[1], !.expectedMinutes = m[2]] :
        st \in StatTypes,
        cv \in Ints({0, 12}),
        ge \in Ints({1, 10, 20, 30, 35, 40, 45, 50, 60, 70, 80, 100}),
        m \in {<<Undefined, Undefined>>, <<I(45), I(30)>>}}

Inputs ==
    CoreInputs \cup ContextInputs \cup StatInputs \cup PriorInputs
    \cup ScenarioInputs \cup DampeningInputs

\* longest array handed to calculateBatchEdges
MaxPlayers == 3

\* the players of a batch: two that tie, a lower and a higher score, and one
\* whose gamesPlayed is below its domain
PlayerPool ==
    {[playerId |-> "p1", playerName |-> "A", statType |-> "points",
      input |-> BaseInput],
     [playerId |-> "p2", playerName |-> "B", statType |-> "points",
      input |-> BaseInput],
     [playerId |-> "p3", playerName |-> "C", statType |-> "points",
      input |-> [BaseInput EXCEPT !.currentValue = I(4)]],
     [playerId |-> "p4", playerName |-> "D", statType |-> "receiving_yards",
      input |-> [BaseInput EXCEPT !.currentValue = I(38),
                     !.pregameLine = F(455, 10), !.gameElapsedPercent = I(33),
                     !.isRookie = "true", !.minutesPlayed = I(20),
                     !.expectedMinutes = I(60),
                     !.statType = "receiving_yards", !.sport = "nfl"]],
     [playerId |-> "p5", playerName |-> "E", statType |-> "points",
      input |-> [BaseInput EXCEPT !.gamesPlayed = I(-2)]]}

PlayerArrays ==
    UNION {[1 .. n -> PlayerPool] : n \in 0 .. MaxPlayers}

NoResult == [signal |-> NONE]
\* calculateBatchEdges has not returned
NoBatch == <<[playerId |-> NONE]>>
NoAlertInput == [module |-> NONE, edgeScore |-> Undefined, previousScore |-> Undefined]

ScoreGrid == {F(n, 10) : n \in 0 .. MaxScoreTenths}

\* the edge scores handed to shouldAlert: the grid, and the NaN that
\* calculateEdgeScore returns for a gamesPlayed below -1
AlertScores == ScoreGrid \cup {NaN}

----------------------------------------------------------------------------
(* One invocation of calculateEdgeScore on an input of Inputs              *)

Init ==
    /\ input \in Inputs
    /\ result = NoResult
    /\ pc = "ready"
    /\ alertInput = NoAlertInput
    /\ alerted = NONE
    /\ mateoResult = NoResult
    /\ players = << >>
    /\ batch = NoBatch
    /\ liveStats = << >>
    /\ alerts = << >>

Calculate ==
    /\ pc = "ready"
    /\ result' = calculateEdgeScore(input)
    /\ pc' = "done"
    /\ UNCHANGED <<input, alertInput, alerted, mateoResult, players, batch,
                   liveStats, alerts>>

Next == Calculate

Spec == Init /\ [][Next]_vars

----------------------------------------------------------------------------
(* One invocation of shouldAlert on scores of the grid                     *)

InitAlert ==
    /\ input = BaseInput
    /\ result = NoResult
    /\ pc = "ready"
    /\ alertInput \in [module : {"edge", "edge-v2"}, edgeScore : AlertScores,
                       previousScore : Opt(ScoreGrid)]
    /\ alerted = NONE
    /\ mateoResult = NoResult
    /\ players = << >>
    /\ batch = NoBatch
    /\ liveStats = << >>
    /\ alerts = << >>

Alert ==
    /\ pc = "ready"
    /\ alerted' =
         IF (IF alertInput.module = "edge"
             THEN shouldAlertV1(alertInput.edgeScore, alertInput.previousScore)
             ELSE shouldAlert(alertInput.edgeScore, alertInput.previousScore))
         THEN "true" ELSE "false"
    /\ pc' = "done"
    /\ UNCHANGED <<input, result, alertInput, mateoResult, players, batch,
                   liveStats, alerts>>

NextAlert == Alert

SpecAlert == InitAlert /\ [][NextAlert]_vars

----------------------------------------------------------------------------
(* The pace score and the edge score of one player, in either order       *)

\* pace inputs on and around the breakpoints of the pace tiers, with and
\* without the player's minutes and the game context of the edge score
PaceInputs ==
    {[BaseInput EXCEPT !.currentValue = cv, !.pregameLine = pl,
                       !.gameElapsedPercent = ge,
                       !.minutesPlayed = mp, !.expectedMinutes = em,
                       !.scoreDifferential = c[1], !.period = c[2],
                       !.personalFouls = c[3], !.sport = c[4]] :
        cv \in Ints({0, 9, 10, 11, 15, 16}),
        pl \in Ints({0, 10, 20}),
        ge \in Ints({0, 50, 100}),
        mp \in Opt(Ints({0, 12})),
        em \in Opt(Ints({0, 30})),
        c \in {<<Undefined, Undefined, Undefined, NONE>>,
               <<I(30), I(3), Undefined, NONE>>,
               <<I(10), I(3), I(4), "nba">>,
               <<I(10), I(3), I(4), "nfl">>}}

InitPace ==
    /\ input \in PaceInputs
    /\ result = NoResult
    /\ pc = "ready"
    /\ alertInput = NoAlertInput
    /\ alerted = NONE
    /\ mateoResult = NoResult
    /\ players = << >>
    /\ batch = NoBatch
    /\ liveStats = << >>
    /\ alerts = << >>

CalculateMateo ==
    /\ mateoResult = NoResult
    /\ mateoResult' = calculateMateoScore(input)
    /\ UNCHANGED <<input, result, pc, alertInput, alerted, players, batch,
                   liveStats, alerts>>

NextPace == Calculate \/ CalculateMateo

SpecPace == InitPace /\ [][NextPace]_vars

----------------------------------------------------------------------------
(* One invocation of calculateBatchEdges on an array of players           *)

InitBatch ==
    /\ input = BaseInput
    /\ result = NoResult
    /\ pc = "ready"
    /\ alertInput = NoAlertInput
    /\ alerted = NONE
    /\ mateoResult = NoResult
    /\ players \in PlayerArrays
    /\ batch = NoBatch
    /\ liveStats = << >>
    /\ alerts = << >>

Batch ==
    /\ pc = "ready"
    /\ batch' \in calculateBatchEdges(players)
    /\ pc' = "done"
    /\ UNCHANGED <<input, result, alertInput, alerted, mateoResult, players,
                   liveStats, alerts>>

NextBatch == Batch

SpecBatch == InitBatch /\ [][NextBatch]_vars

----------------------------------------------------------------------------
(* The sync runs of one line (player, game, statType): the cron sync route *)
(* and the per-game sync route, each run scoring the line and deciding on  *)
(* an alert row                                                            *)

\* most runs followed
MaxRuns == 3

\* the live stat and the game clock a run may find
SyncValues == {0, 4, 10, 12, 14, 18, 20}
SyncElapsed == {50, 75}

\* the EdgeInput both routes build for a basketball line
SyncInput(cv, ge) ==
    [BaseInput EXCEPT !.currentValue = I(cv), !.gameElapsedPercent = I(ge),
                      !.pregameLine = F(105, 10), !.gamesPlayed = I(1),
                      !.historicalStddev = I(0), !.isRookie = "false",
                      !.statType = "points", !.scoreDifferential = I(5),
                      !.period = I(2), !.personalFouls = I(0),
                      !.sport = "nba"]

InitSync ==
    /\ input = BaseInput
    /\ result = NoResult
    /\ pc = "ready"
    /\ alertInput = NoAlertInput
    /\ alerted = NONE
    /\ mateoResult = NoResult
    /\ players = << >>
    /\ batch = NoBatch
    /\ liveStats = << >>
    /\ alerts = << >>

\* the alert row of a run
AlertRow(score) == [edgeScore |-> score, run |-> Len(liveStats) + 1]

\* the cron route: shouldAlert is called with the score alone
CronSync ==
    /\ Len(liveStats) < MaxRuns
    /\ \E cv \in SyncValues, ge \in SyncElapsed :
          /\ cv > 0
          /\ LET score == calculateEdgeScore(SyncInput(cv, ge)).edgeScore
             IN  /\ liveStats' = Append(liveStats, score)
                 /\ alerts' = IF shouldAlert(score, Undefined)
                              THEN Append(alerts, AlertRow(score))
                              ELSE alerts
    /\ UNCHANGED <<input, result, pc, alertInput, alerted, mateoResult,
                   players, batch>>

\* the previous score the per-game route may read: the edgeScore of an
\* active alert row of the line (findFirst has no order), if there is one
ExistingAlertScores ==
    IF alerts = << >> THEN {Undefined}
    ELSE {alerts[i].edgeScore : i \in 1 .. Len(alerts)}

\* the per-game route: from a score of 1.5, shouldAlert against the score of
\* an existing active alert
GameSync ==
    /\ Len(liveStats) < MaxRuns
    /\ \E cv \in SyncValues, ge \in SyncElapsed,
          previousScore \in ExistingAlertScores :
          /\ cv # 0
          /\ LET score == calculateEdgeScore(SyncInput(cv, ge)).edgeScore
             IN  /\ liveStats' = Append(liveStats, score)
                 /\ alerts' = IF FGe(score, F(15, 10))
                                 /\ shouldAlert(score, previousScore)
                              THEN Append(alerts, AlertRow(score))
                              ELSE alerts
    /\ UNCHANGED <<input, result, pc, alertInput, alerted, mateoResult,
                   players, batch>>

NextSync == CronSync \/ GameSync

SpecSync == InitSync /\ [][NextSync]_vars

----------------------------------------------------------------------------
(* Claims                                                                  *)

\* the raw score recomputed from the components of a result
rawScoreOf(r) ==
    rawScore(r.components.adjustedPaceRatio, r.components.poissonConfidence,
             r.components.usageMultiplier, r.components.gamePaceMultiplier,
             r.components.dataScarcity, r.components.gameTiming,
             r.components.variancePenalty)

\* the documented domains of the input fields
InDomain(inp) ==
    /\ FGe(inp.currentValue, I(0))
    /\ FGe(inp.gamesPlayed, I(0))
    /\ FGe(inp.gameElapsedPercent, I(0)) /\ FLe(inp.gameElapsedPercent, I(100))
    /\ IsDefined(inp.usagePercentage) =>
          FGe(inp.usagePercentage, I(0)) /\ FLe(inp.usagePercentage, I(100))
    /\ inp.statType \in StatTypes \cup {NONE}

\* C1: for every input inside the documented domains the returned edgeScore
\* is a number with 0 <= edgeScore <= 10.
C1_Boundedness ==
    (pc = "done" /\ InDomain(input)) =>
        /\ IsNum(result.edgeScore)
        /\ 0 <= result.edgeScore.v
        /\ result.edgeScore.v <= 10 * SCALE

\* an in-domain invocation whose raw score is above 10 and was clamped to 10
C1_Witness ==
    /\ pc = "done"
    /\ InDomain(input)
    /\ FGt(rawScoreOf(result), I(10))
    /\ result.edgeScore = I(10)

\* the tier the claim assigns to a finite score
C2_Tier(s) ==
    IF s.v < (15 * SCALE) \div 10 THEN "none"
    ELSE IF s.v < 2 * SCALE THEN "monitor"
    ELSE IF s.v < 3 * SCALE THEN "good"
    ELSE "strong"

C2_Rank(sig) ==
    CASE sig = "none" -> 0
      [] sig = "monitor" -> 1
      [] sig = "good" -> 2
      [] sig = "strong" -> 3

C3_Expected(score, prev) ==
    /\ score.v >= 2 * SCALE
    /\ \/ ~IsDefined(prev)
       \/ prev.v < 2 * SCALE
       \/ (prev.v < 3 * SCALE /\ score.v >= 3 * SCALE)

C3_Call(score, prev) ==
    /\ alertInput.edgeScore = score
    /\ alertInput.previousScore = prev

\* C3: shouldAlert returns true exactly when edgeScore >= 2.0 and either no
\* previous score is given, or previousScore < 2.0, or previousScore < 3.0
\* and edgeScore >= 3.0; shouldAlert(2.5, 2.2) is false, shouldAlert(2.5, 1.9)
\* and shouldAlert(3.5, 2.5) are true.
C3_ShouldAlert ==
    pc = "done" =>
        /\ (alerted = "true") <=>
              C3_Expected(alertInput.edgeScore, alertInput.previousScore)
        /\ C3_Call(F(25, 10), F(22, 10)) => alerted = "false"
        /\ C3_Call(F(25, 10), F(19, 10)) => alerted = "true"
        /\ C3_Call(F(35, 10), F(25, 10)) => alerted = "true"

\* the call shouldAlert(3.5, 2.5) of the v2 module returned true
C3_Witness ==
    /\ pc = "done"
    /\ alertInput.module = "edge-v2"
    /\ C3_Call(F(35, 10), F(25, 10))
    /\ alerted = "true"

\* every number of a result
ResultNumbers(r) ==
    {r.edgeScore, r.pace, r.projectedFinal} \cup
    {r.components[f] : f \in DOMAIN r.components}

\* C4: with a pregameLine below 0.1 (0 included) every use of the line takes
\* the floored value 0.1: paceRatio = projectedFinal / 0.1 and is a finite
\* number, variancePenalty = historicalStddev / 0.1, and the Poisson
\* confidence is the one of the target 0.1.
C4_FlooredLine ==
    (pc = "done" /\ FLt(input.pregameLine, F(1, 10))) =>
        /\ result.components.paceRatio = FDiv(result.projectedFinal, F(1, 10))
        /\ IsNum(result.components.paceRatio)
        /\ result.components.variancePenalty =
              (IF IsDefined(input.historicalStddev)
                  /\ FGt(input.historicalStddev, I(0))
               THEN FDiv(input.historicalStddev, F(1, 10)) ELSE I(0))
        /\ result.components.poissonConfidence =
              getPoissonConfidence(input.currentValue, F(1, 10),
                                   progressOf(input), input.statType)

\* an invocation with pregameLine = 0, a positive projection and a positive
\* historicalStddev
C4_Witness ==
    /\ pc = "done"
    /\ input.pregameLine = I(0)
    /\ FGt(input.historicalStddev, I(0))
    /\ FGt(result.components.paceRatio, I(0))
    /\ FGt(result.components.variancePenalty, I(0))

\* the input is garbage in one of the three ways of the claim and inside the
\* documented domains otherwise
C5_Garbage(inp) ==
    /\ \/ FLt(inp.currentValue, I(0))
       \/ FLt(inp.gamesPlayed, I(0))
       \/ FLe(inp.pregameLine, I(0))
    /\ FGe(inp.gameElapsedPercent, I(0)) /\ FLe(inp.gameElapsedPercent, I(100))
    /\ IsDefined(inp.usagePercentage) =>
          FGe(inp.usagePercentage, I(0)) /\ FLe(inp.usagePercentage, I(100))
    /\ inp.statType \in StatTypes \cup {NONE}

\* C5: for a negative currentValue, a negative gamesPlayed or a pregameLine
\* <= 0 no component and no result field is NaN or infinite, and edgeScore
\* stays in [0, 10].
C5_GarbageWellDefined ==
    (pc = "done" /\ C5_Garbage(input)) =>
        /\ \A x \in ResultNumbers(result) : IsNum(x)
        /\ FGe(result.edgeScore, I(0)) /\ FLe(result.edgeScore, I(10))

\* C6: for a statType that is absent or not in the dampening table
\* statDampening is exactly 1.0 and adjustedPaceRatio = paceRatio; for a
\* statType that is absent or not one of the four rare-event types
\* poissonConfidence is exactly 1.0.
C6_NoOpMultipliers ==
    pc = "done" =>
        /\ input.statType \notin StatTypes =>
              /\ result.components.statDampening = I(1)
              /\ result.components.adjustedPaceRatio = result.components.paceRatio
        /\ input.statType \notin POISSON_STAT_TYPES =>
              result.components.poissonConfidence = I(1)

\* the Poisson case of the claims: an eligible stat type and a progress
\* strictly between 0 and 1
C7_PoissonCase(inp) ==
    /\ inp.statType \in POISSON_STAT_TYPES
    /\ FGt(progressOf(inp), I(0))
    /\ FLt(progressOf(inp), I(1))

\* C7 as stated: in the Poisson case, currentValue >= pregameLine gives a
\* poissonConfidence of exactly 1.5.
C7_TargetMetOriginal ==
    (pc = "done" /\ C7_PoissonCase(input)
        /\ FGe(input.currentValue, input.pregameLine)) =>
        result.components.poissonConfidence = F(15, 10)

\* C7 amended: in the Poisson case, currentValue >= max(pregameLine, 0.1)
\* gives a poissonConfidence of exactly 1.5.
C7_TargetMet ==
    (pc = "done" /\ C7_PoissonCase(input)
        /\ FGe(input.currentValue, MathMax(input.pregameLine, F(1, 10)))) =>
        result.components.poissonConfidence = F(15, 10)

\* a rare-event stat at a progress of at most 0.05, its floored line met
C7_Witness ==
    /\ pc = "done"
    /\ C7_PoissonCase(input)
    /\ FLe(progressOf(input), F(5, 100))
    /\ FGe(input.currentValue, MathMax(input.pregameLine, F(1, 10)))
    /\ result.components.poissonConfidence = F(15, 10)

\* C8: poissonConfidence is within [0.3, 1.5] for every input.
C8_PoissonRange ==
    pc = "done" =>
        /\ IsNum(result.components.poissonConfidence)
        /\ FGe(result.components.poissonConfidence, F(3, 10))
        /\ FLe(result.components.poissonConfidence, F(15, 10))

\* an invocation whose confidence came from the Poisson tail, strictly
\* inside the range
C8_Witness ==
    /\ pc = "done"
    /\ C7_PoissonCase(input)
    /\ FLt(input.currentValue, MathMax(input.pregameLine, F(1, 10)))
    /\ FGt(result.components.poissonConfidence, F(3, 10))
    /\ FLt(result.components.poissonConfidence, F(15, 10))

C9_Factor(x) == IsNum(x) /\ FGt(x, I(0)) /\ FLe(x, I(1))

\* C9: effectiveExpectedMinutes = expectedMinutes * min(blowoutFactor,
\* foulTroubleReduction), 0 when expectedMinutes is absent, at most
\* expectedMinutes when expectedMinutes >= 0; both factors are in (0, 1].
C9_EffectiveMinutes ==
    pc = "done" =>
        /\ C9_Factor(result.components.blowoutFactor)
        /\ C9_Factor(result.components.foulTroubleReduction)
        /\ result.components.effectiveExpectedMinutes =
              FMul(IF IsDefined(input.expectedMinutes)
                   THEN input.expectedMinutes ELSE I(0),
                   MathMin(result.components.blowoutFactor,
                           result.components.foulTroubleReduction))
        /\ ~IsDefined(input.expectedMinutes) =>
              result.components.effectiveExpectedMinutes = I(0)
        /\ (IsDefined(input.expectedMinutes) /\ FGe(input.expectedMinutes, I(0))) =>
              FLe(result.components.effectiveExpectedMinutes, input.expectedMinutes)

\* both reductions apply and differ, and the expected minutes are reduced
C9_Witness ==
    /\ pc = "done"
    /\ FGt(input.expectedMinutes, I(0))
    /\ FLt(result.components.blowoutFactor, I(1))
    /\ FLt(result.components.foulTroubleReduction, result.components.blowoutFactor)
    /\ FLt(result.components.effectiveExpectedMinutes, input.expectedMinutes)

C10_Scarcity(inp) == calculateEdgeScore(inp).components.dataScarcity

\* C10: for gamesPlayed >= 0, dataScarcity = (1 + 1/sqrt(gamesPlayed + 1)) *
\* (1.2 if isRookie else 1.0); one more game played gives a strictly smaller
\* value, and the rookie value is 1.2 times the non-rookie value.
C10_DataScarcity ==
    (pc = "done" /\ FGe(input.gamesPlayed, I(0))) =>
        /\ result.components.dataScarcity =
              FMul(FAdd(I(1), FDiv(I(1), MathSqrt(FAdd(input.gamesPlayed, I(1))))),
                   IF input.isRookie = "true" THEN F(12, 10) ELSE I(1))
        /\ FLt(C10_Scarcity([input EXCEPT !.gamesPlayed = FAdd(@, I(1))]),
               result.components.dataScarcity)
        /\ C10_Scarcity([input EXCEPT !.isRookie = "true"]) =
              FMul(C10_Scarcity([input EXCEPT !.isRookie = "false"]), F(12, 10))

\* a rookie with 3 games played: 1.2 * (1 + 1/2) = 1.8
C10_Witness ==
    /\ pc = "done"
    /\ input.isRookie = "true"
    /\ input.gamesPlayed = I(3)
    /\ result.components.dataScarcity = F(18, 10)

\* the example of the pace score: 10 of a line of 20 at half time, no minutes
C11_Example ==
    [BaseInput EXCEPT !.currentValue = I(10), !.pregameLine = I(20),
                      !.gameElapsedPercent = I(50)]

\* the pace tier the breakpoints 0.9, 1.1 and 1.5 give a pacePercent
C11_Tier(pacePercent) ==
    CASE FLt(pacePercent, F(9, 10)) -> "behind"
      [] FGe(pacePercent, F(9, 10)) /\ FLe(pacePercent, F(11, 10)) -> "on_target"
      [] FGt(pacePercent, F(11, 10)) /\ FLe(pacePercent, F(15, 10)) -> "ahead"
      [] FGt(pacePercent, F(15, 10)) -> "way_ahead"

\* C11: calculateMateoScore returns targetPercent = currentValue /
\* max(pregameLine, 0.1) and pacePercent = targetPercent / progress; the signal
\* is behind below 0.9, on_target from 0.9 to 1.1 inclusive, ahead above 1.1
\* up to 1.5 inclusive, way_ahead above 1.5; 10 of a line of 20 at 50% of the
\* game with no minutes gives pacePercent 1.0 and on_target
C11_MateoScore ==
    mateoResult # NoResult =>
        /\ mateoResult.targetPercent =
               FDiv(input.currentValue, MathMax(input.pregameLine, F(1, 10)))
        /\ mateoResult.pacePercent =
               FDiv(mateoResult.targetPercent,
                    mateoProgress(input.minutesPlayed, input.expectedMinutes,
                                  input.gameElapsedPercent))
        /\ mateoResult.signal = C11_Tier(mateoResult.pacePercent)
        /\ input = C11_Example =>
               /\ mateoResult.pacePercent = I(1)
               /\ mateoResult.signal = "on_target"

\* the example has been scored
C11_Witness ==
    /\ input = C11_Example
    /\ mateoResult # NoResult
    /\ mateoResult.targetPercent = F(5, 10)
    /\ mateoResult.signal = "on_target"

\* C12: the pace score and the edge score of the same currentValue,
\* pregameLine, gameElapsedPercent, minutesPlayed and expectedMinutes use the
\* same progress (so that pacePercent x max(pregameLine, 0.1) is the pace of
\* the edge result)
C12_SameProgress ==
    (pc = "done" /\ mateoResult # NoResult) =>
        mateoProgress(input.minutesPlayed, input.expectedMinutes,
                      input.gameElapsedPercent) = progressOf(input)

\* the football scenario: a rookie receiver with 38 yards of a line of 45.5
\* after 20 of 60 expected minutes
C14_Input ==
    [BaseInput EXCEPT !.currentValue = I(38), !.pregameLine = F(455, 10),
                      !.gameElapsedPercent = I(33), !.gamesPlayed = I(3),
                      !.isRookie = "true", !.minutesPlayed = I(20),
                      !.expectedMinutes = I(60),
                      !.statType = "receiving_yards", !.sport = "nfl"]

\* C14: on the football scenario calculateEdgeScore uses progress = 20/60
\* (not the game clock's 0.33) and dataScarcity = 1.8, and returns
\* edgeScore >= 2.0 with signal good or strong
C14_Scenario ==
    (pc = "done" /\ input = C14_Input) =>
        /\ progressOf(input) = FDiv(I(20), I(60))
        /\ result.components.gameTiming =
               getExponentialGameTiming(FDiv(I(20), I(60)))
        /\ result.pace = FDiv(I(38), FDiv(I(20), I(60)))
        /\ result.components.dataScarcity = F(18, 10)
        /\ FGe(result.edgeScore, F(20, 10))
        /\ result.signal \in {"good", "strong"}

\* the scenario has been scored
C14_Witness ==
    /\ pc = "done"
    /\ input = C14_Input
    /\ result.components.dataScarcity = F(18, 10)
    /\ result.signal = "good"

\* C15: the components of a result explain its score: edgeScore is
\* adjustedPaceRatio x poissonConfidence x usageMultiplier x
\* gamePaceMultiplier x dataScarcity x gameTiming - variancePenalty clamped to
\* [0, 10], adjustedPaceRatio is paceRatio / statDampening, paceRatio is
\* projectedFinal / max(pregameLine, 0.1) and projectedFinal is
\* components.bayesianProjection (NaN is explained by NaN)
C15_Explained ==
    pc = "done" =>
        LET c == result.components
            product ==
                FMul(FMul(FMul(FMul(FMul(c.adjustedPaceRatio,
                                         c.poissonConfidence),
                                    c.usageMultiplier),
                               c.gamePaceMultiplier),
                          c.dataScarcity),
                     c.gameTiming)
            clamped == MathMax(I(0), MathMin(FSub(product, c.variancePenalty),
                                             I(10)))
        IN  /\ result.edgeScore = clamped
            /\ c.adjustedPaceRatio = FDiv(c.paceRatio, c.statDampening)
            /\ c.paceRatio =
                   FDiv(result.projectedFinal,
                        MathMax(input.pregameLine, F(1, 10)))
            /\ result.projectedFinal = c.bayesianProjection

\* a score strictly inside the clamp with a variance penalty, a usage
\* multiplier and a scarcity at work
C15_Witness ==
    /\ pc = "done"
    /\ FGt(result.edgeScore, I(0)) /\ FLt(result.edgeScore, I(10))
    /\ FGt(result.components.variancePenalty, I(0))
    /\ result.components.usageMultiplier # I(1)
    /\ FGt(result.components.dataScarcity, I(1))

\* C16: calculateBatchEdges returns one entry per input player, each with
\* that player's identity fields and calculateEdgeScore of that player's own
\* input (a permutation of the inputs), ordered by non-increasing
\* result.edgeScore
C16_BatchSorted ==
    (pc = "done" /\ batch # NoBatch) =>
        /\ Len(batch) = Len(players)
        /\ \E f \in [1 .. Len(players) -> 1 .. Len(players)] :
              /\ \A i, j \in 1 .. Len(players) : f[i] = f[j] => i = j
              /\ \A i \in 1 .. Len(players) :
                    /\ batch[i].playerId = players[f[i]].playerId
                    /\ batch[i].playerName = players[f[i]].playerName
                    /\ batch[i].statType = players[f[i]].statType
                    /\ batch[i].result = calculateEdgeScore(players[f[i]].input)
        /\ \A i, j \in 1 .. Len(batch) :
              i < j => FGe(batch[i].result.edgeScore, batch[j].result.edgeScore)

\* C17: blowoutFactor is 1.0 when scoreDifferential or period is missing;
\* otherwise, in this order: 0.30 for period >= 3 and differential > 25,
\* 0.60 for period >= 3 and differential > 20, 0.50 for period >= 4 and
\* differential > 15, else 1.0; period 4 with differential 22 gets 0.60
C17_BlowoutFactor ==
    pc = "done" =>
        LET d == input.scoreDifferential
            p == input.period
            factor == result.components.blowoutFactor
        IN  /\ (~IsDefined(d) \/ ~IsDefined(p)) => factor = I(1)
            /\ (IsDefined(d) /\ IsDefined(p)) =>
                  factor =
                    CASE FGe(p, I(3)) /\ FGt(d, I(25)) -> F(30, 100)
                      [] FGe(p, I(3)) /\ FGt(d, I(20)) /\ FLe(d, I(25)) ->
                             F(60, 100)
                      [] FGe(p, I(4)) /\ FGt(d, I(15)) /\ FLe(d, I(20)) ->
                             F(50, 100)
                      [] OTHER -> I(1)
            /\ (d = I(22) /\ p = I(4)) => factor = F(60, 100)

\* a fourth quarter with a lead of 22
C17_Witness ==
    /\ pc = "done"
    /\ input.period = I(4)
    /\ input.scoreDifferential = I(22)
    /\ result.components.blowoutFactor = F(60, 100)

\* C18: foulTroubleReduction is 0.50 for basketball, period < 4 and
\* personalFouls >= 5, 0.75 for basketball, period < 4 and personalFouls = 4,
\* and 1.0 in every other case (period >= 4, football or no sport,
\* personalFouls or period missing)
C18_FoulTrouble ==
    pc = "done" =>
        LET f == input.personalFouls
            p == input.period
            early == input.sport = "nba" /\ IsDefined(f) /\ IsDefined(p)
                     /\ FLt(p, I(4))
            reduction == result.components.foulTroubleReduction
        IN  reduction =
              CASE early /\ FGe(f, I(5)) -> F(50, 100)
                [] early /\ f = I(4) -> F(75, 100)
                [] OTHER -> I(1)

\* a basketball player with four fouls in the third period
C18_Witness ==
    /\ pc = "done"
    /\ input.sport = "nba"
    /\ input.period = I(3)
    /\ input.personalFouls = I(4)
    /\ result.components.foulTroubleReduction = F(75, 100)

\* the progress the resolution order of C19 gives an input
C19_Resolved(inp, effMinutes) ==
    IF IsDefined(inp.minutesPlayed) /\ FGt(effMinutes, I(0))
    THEN MathMax(FDiv(inp.minutesPlayed, effMinutes), F(1, 100))
    ELSE IF IsDefined(inp.minutesPlayed) /\ IsDefined(inp.expectedMinutes)
            /\ FGt(inp.expectedMinutes, I(0))
    THEN MathMax(FDiv(inp.minutesPlayed, inp.expectedMinutes), F(1, 100))
    ELSE FDiv(MathMax(inp.gameElapsedPercent, I(1)), I(100))

\* C19: progress is minutesPlayed / effectiveExpectedMinutes when
\* minutesPlayed is given (0 included) and effectiveExpectedMinutes > 0, else
\* minutesPlayed / expectedMinutes when minutesPlayed is given and
\* expectedMinutes > 0, else max(gameElapsedPercent, 1) / 100, and the
\* progress used downstream (game timing, pace) is at least 0.01
C19_Progress ==
    pc = "done" =>
        LET progress ==
                C19_Resolved(input, result.components.effectiveExpectedMinutes)
        IN  /\ progressOf(input) = progress
            /\ FGe(progress, F(1, 100))
            /\ result.components.gameTiming = getExponentialGameTiming(progress)
            /\ result.pace = FDiv(input.currentValue, progress)

\* no minute played of a positive number of expected minutes: the floor
C19_Witness ==
    /\ pc = "done"
    /\ input.minutesPlayed = I(0)
    /\ FGt(result.components.effectiveExpectedMinutes, I(0))
    /\ FGt(input.currentValue, I(0))
    /\ result.pace = FDiv(input.currentValue, F(1, 100))

\* C20: when seasonAverage is undefined or <= 0 the projection is the pure
\* extrapolation: projectedFinal = components.bayesianProjection =
\* currentValue / progress, the pace field of the same result
C20_PureExtrapolation ==
    (pc = "done"
     /\ (~IsDefined(input.seasonAverage) \/ FLe(input.seasonAverage, I(0)))) =>
        /\ result.projectedFinal = result.components.bayesianProjection
        /\ result.projectedFinal = FDiv(input.currentValue, progressOf(input))
        /\ result.projectedFinal = result.pace

\* a season average of 0 and a positive extrapolation
C20_Witness ==
    /\ pc = "done"
    /\ input.seasonAverage = I(0)
    /\ FGt(result.pace, I(0))
    /\ result.projectedFinal = result.pace

\* what the truncation of the fixed-point operations may cost a product
Tolerance == F(1, 1000)

\* two numbers equal up to the tolerance
Near(a, b) == FLe(FSub(a, b), Tolerance) /\ FLe(FSub(b, a), Tolerance)

\* C21: when seasonAverage > 0, (2 + w) x projectedFinal = 2 x seasonAverage
\* + w x (currentValue / progress) with w = minutesPlayed / 12 (0 when
\* minutesPlayed is absent), and for minutesPlayed >= 0 the projection lies
\* between seasonAverage and currentValue / progress inclusive
C21_Blend ==
    (pc = "done" /\ IsDefined(input.seasonAverage)
     /\ FGt(input.seasonAverage, I(0))) =>
        LET w == IF IsDefined(input.minutesPlayed)
                 THEN FDiv(input.minutesPlayed, I(12)) ELSE I(0)
            currentPace == FDiv(input.currentValue, progressOf(input))
            blend == FAdd(FMul(I(2), input.seasonAverage), FMul(w, currentPace))
        IN  /\ result.projectedFinal = FDiv(blend, FAdd(I(2), w))
            /\ Near(FMul(FAdd(I(2), w), result.projectedFinal), blend)
            /\ FGe(w, I(0)) =>
                  /\ FGe(result.projectedFinal,
                         MathMin(input.seasonAverage, currentPace))
                  /\ FLe(result.projectedFinal,
                         MathMax(input.seasonAverage, currentPace))

\* a season average blended with a different pace after 24 minutes
C21_Witness ==
    /\ pc = "done"
    /\ input.seasonAverage = I(8)
    /\ input.minutesPlayed = I(24)
    /\ FGt(result.projectedFinal, I(8))
    /\ FLt(result.projectedFinal, result.pace)

\* the sum of the Poisson terms of the counts k, k + 1, ... below remaining,
\* term being the term of k
RECURSIVE C22_SumBelow(_, _, _, _, _)
C22_SumBelow(k, remaining, lambda, sum, term) ==
    IF ~FLt(I(k), remaining) THEN sum
    ELSE C22_SumBelow(k + 1, remaining, lambda,
                      FAdd(sum, term), FMul(term, FDiv(lambda, I(k + 1))))

\* P(X >= remaining) for X Poisson with rate lambda
C22_Tail(remaining, lambda) ==
    FSub(I(1), MathMin(I(1), C22_SumBelow(0, remaining, lambda, I(0),
                                          MathExp(FNeg(lambda)))))

\* the target of a rare-event stat not met yet, with events still expected
\* (the current rate counts as 0 up to a progress of 0.05)
C22_Case(inp) ==
    LET progress == progressOf(inp)
        remaining == FSub(line(inp.pregameLine), inp.currentValue)
        expectedRemaining ==
            FMul(FDiv(inp.currentValue, progress), FSub(I(1), progress))
    IN  /\ inp.statType \in POISSON_STAT_TYPES
        /\ FGt(progress, F(5, 100)) /\ FLt(progress, I(1))
        /\ FGt(remaining, I(0))
        /\ FGt(expectedRemaining, I(0))

\* C22: for a Poisson-eligible statType with 0 < progress < 1, remaining =
\* line - currentValue > 0 and expectedRemaining > 0, the confidence is
\* 2 x P(X >= remaining) clamped to [0.3, 1.5], P(X >= remaining) being 1
\* minus the Poisson terms of every integer count k < remaining, also when
\* remaining is fractional
C22_PoissonTail ==
    (pc = "done" /\ C22_Case(input)) =>
        LET progress == progressOf(input)
            remaining == FSub(line(input.pregameLine), input.currentValue)
            expectedRemaining ==
                FMul(FDiv(input.currentValue, progress), FSub(I(1), progress))
        IN  result.components.poissonConfidence =
                MathMax(F(3, 10),
                        MathMin(F(15, 10),
                                FMul(C22_Tail(remaining, expectedRemaining),
                                     F(20, 10))))

\* C23: for a Poisson-eligible statType with 0 < progress < 1 and the target
\* not met (line - currentValue > 0), the confidence is exactly 0.3 whenever
\* the expected remaining count is not positive: for every progress <= 0.05
\* and for currentValue = 0
C23_NoPath ==
    LET progress == progressOf(input)
    IN  (/\ pc = "done"
         /\ input.statType \in POISSON_STAT_TYPES
         /\ FGt(progress, I(0)) /\ FLt(progress, I(1))
         /\ FGt(FSub(line(input.pregameLine), input.currentValue), I(0))
         /\ (FLe(progress, F(5, 100)) \/ input.currentValue = I(0))) =>
            result.components.poissonConfidence = F(3, 10)

\* a count under its line at a progress of exactly 0.05
C23_Witness ==
    /\ pc = "done"
    /\ input.statType \in POISSON_STAT_TYPES
    /\ progressOf(input) = F(5, 100)
    /\ FGt(input.currentValue, I(0))
    /\ FGt(input.pregameLine, input.currentValue)
    /\ result.components.poissonConfidence = F(3, 10)

\* progresses from 0.01 to 1.5 to compare a dampening with
C24_Progresses == {F(1, 100)} \cup {F(n, 20) : n \in 1 .. 30}

C25_Multipliers ==
    pc = "done" =>
        LET c == result.components
            usage == input.usagePercentage
        IN  /\ (input.sport # "nba" \/ ~IsDefined(usage)) =>
                  c.usageMultiplier = I(1)
            /\ (input.sport # "nba" \/ ~IsDefined(input.gamePace)) =>
                  c.gamePaceMultiplier = I(1)
            /\ (input.sport = "nba" /\ IsDefined(usage)) =>
                  /\ c.usageMultiplier =
                         FAdd(F(7, 10), FMul(FDiv(usage, I(100)), F(15, 10)))
                  /\ (FGe(usage, I(0)) /\ FLe(usage, I(100))) =>
                         /\ FGe(c.usageMultiplier, F(7, 10))
                         /\ FLe(c.usageMultiplier, F(22, 10))
            /\ (input.sport = "nba" /\ IsDefined(input.gamePace)) =>
                  c.gamePaceMultiplier = FDiv(input.gamePace, I(100))

\* a football player whose usage and game pace are supplied and ignored
C25_Witness ==
    /\ pc = "done"
    /\ input.sport = "nfl"
    /\ input.usagePercentage = I(25)
    /\ input.gamePace = I(110)
    /\ result.components.usageMultiplier = I(1)
    /\ result.components.gamePaceMultiplier = I(1)

\* the score crosses upward over 2.0 or 3.0 from the preceding run's (a
\* first run crosses what it reaches)
C26_Crossed(previous, score) ==
    IF IsDefined(previous)
    THEN \/ FLt(previous, F(20, 10)) /\ FGe(score, F(20, 10))
         \/ FLt(previous, F(30, 10)) /\ FGe(score, F(30, 10))
    ELSE FGe(score, F(20, 10))

\* C26: across any sequence of runs of the cron sync route and of the
\* per-game sync route, an alert row is inserted only on a run whose edge
\* score crosses upward over 2.0 or 3.0 relative to the preceding run; a run
\* whose score stays in the tier of the preceding run inserts none
C26_AlertOnCrossing ==
    \A i \in 1 .. Len(alerts) :
        LET run == alerts[i].run
        IN  C26_Crossed(IF run = 1 THEN Undefined ELSE liveStats[run - 1],
                        liveStats[run])

\* C27: alerting and signal tiers agree: shouldAlert(edgeScore) with no
\* previous score is true exactly when the signal of that edgeScore is good or
\* strong, and shouldAlert(edgeScore, previousScore) is false for every
\* previousScore whenever the signal is none or monitor
C27_AlertMatchesSignal ==
    pc = "done" =>
        LET signal == getSignal(alertInput.edgeScore)
        IN  /\ ~IsDefined(alertInput.previousScore) =>
                  (alerted = "true" <=> signal \in {"good", "strong"})
            /\ signal \in {"none", "monitor"} => alerted = "false"

\* C28: shouldAlert never fires on a score that did not rise: it is false
\* whenever edgeScore <= previousScore, in particular on a drop from the
\* strong tier to the good tier
C28_NoAlertWithoutRise ==
    (pc = "done" /\ IsDefined(alertInput.previousScore)
     /\ FLe(alertInput.edgeScore, alertInput.previousScore)) =>
        alerted = "false"

\* a drop from the strong tier to the good tier
C28_Witness ==
    /\ pc = "done"
    /\ alertInput.module = "edge-v2"
    /\ alertInput.previousScore = F(32, 10)
    /\ alertInput.edgeScore = F(25, 10)
    /\ alerted = "false"

\* live stats to exchange the currentValue of an input for
C29_Values == Ints({0, 3, 6, 15, 30})

\* C29: when seasonAverage > 0 and minutesPlayed is absent, projectedFinal is
\* seasonAverage exactly, so paceRatio and adjustedPaceRatio do not depend on
\* currentValue: inputs that differ only in currentValue get the same ones
C29_PriorOnly ==
    (pc = "done" /\ IsDefined(input.seasonAverage)
     /\ FGt(input.seasonAverage, I(0)) /\ ~IsDefined(input.minutesPlayed)) =>
        /\ result.projectedFinal = input.seasonAverage
        /\ \A cv \in C29_Values :
              LET other ==
                      calculateEdgeScore([input EXCEPT !.currentValue = cv])
              IN  /\ other.projectedFinal = result.projectedFinal
                  /\ other.components.paceRatio = result.components.paceRatio
                  /\ other.components.adjustedPaceRatio =
                         result.components.adjustedPaceRatio

\* a season average of 8 projected for a player on pace for 30
C29_Witness ==
    /\ pc = "done"
    /\ input.seasonAverage = I(8)
    /\ ~IsDefined(input.minutesPlayed)
    /\ input.currentValue = I(15)
    /\ result.pace = I(30)
    /\ result.projectedFinal = I(8)

\* C30: effectiveExpectedMinutes > 0 exactly when expectedMinutes > 0 (the
\* reduction is always positive), so the second progress branch is never
\* taken: whenever minutesPlayed is given and expectedMinutes > 0, progress is
\* computed from the reduced effectiveExpectedMinutes
C30_SecondBranchDead ==
    pc = "done" =>
        LET c == result.components
            positive == IsDefined(input.expectedMinutes)
                        /\ FGt(input.expectedMinutes, I(0))
            given == IsDefined(input.minutesPlayed)
        IN  /\ FGt(MathMin(c.blowoutFactor, c.foulTroubleReduction), I(0))
            /\ FGt(c.effectiveExpectedMinutes, I(0)) <=> positive
            /\ ~(given /\ ~FGt(c.effectiveExpectedMinutes, I(0)) /\ positive)
            /\ (given /\ positive) =>
                  /\ progressOf(input) =
                         MathMax(FDiv(input.minutesPlayed,
                                      c.effectiveExpectedMinutes), F(1, 100))
                  /\ result.pace = FDiv(input.currentValue, progressOf(input))

\* 12 minutes played of 30 expected and reduced to 9 by a blowout
C30_Witness ==
    /\ pc = "done"
    /\ input.minutesPlayed = I(12)
    /\ input.expectedMinutes = I(30)
    /\ result.components.blowoutFactor = F(30, 100)
    /\ result.components.effectiveExpectedMinutes = I(9)
    /\ progressOf(input) = FDiv(I(12), I(9))

============================================================================
